---- MODULE Spec2Model ----
(***************************************************************************)
(* Model of the reporting and property core of fast-check:                *)
(*   - formatExecutionSummary, the report builders and throwIfFailed      *)
(*     (RunDetailsFormatter), together with the custom-assertion wrappers *)
(*   - AsyncProperty.run and the asyncProperty overload resolution.       *)
(* Text is a non-empty sequence of lines: "a\nb" is <<"a", "b">> and the  *)
(* empty string is <<"">>.  Objects (execution tree nodes, arrays) that   *)
(* the code mutates in place live in a heap indexed by node id.           *)
(***************************************************************************)
EXTENDS Integers, Sequences, FiniteSets, TLC

VARIABLES
    phase,                   \* "running" while the driver records, "completed" afterwards
    executionSummary,        \* out.executionSummary: the array of root node ids
    node,                    \* heap of ExecutionTree objects: id -> [value, status, children]
    failures,                \* out.failures
    out,                     \* the scalar fields of the RunDetails
    pc,                      \* position inside formatExecutionSummary: "idle" | "loop"
    remainingTreesAndDepth,  \* the work stack of formatExecutionSummary
    summaryLines,            \* the lines emitted so far
    rendered,                \* text returned by the last direct call of formatExecutionSummary
    prevRendered,            \* text returned by the call before that one
    summary0,                \* executionSummary as it was when the last call started
    node0,                   \* node as it was when the last call started
    thrown,                  \* outcome of the last throwIfFailed: NotCalled, Returned or Thrown(text)
    report,                  \* {message, details, hints} built by the last throwIfFailed
    invoked,                 \* the report builders the last throwIfFailed invoked, in order
    callArgs,                \* the ten parameter slots of the asyncProperty call
    property,                \* the AsyncProperty built by the call: [arb, p, unpack]
    generated,               \* the tuple produced by property.generate
    predicateCalls,          \* argument lists the user predicate received in the last run
    outcome,                 \* what the user predicate did in the last run
    verdict,                 \* how the promise of the last run settled
    wrapper,                 \* the custom-assertion wrapper in progress and its callbacks
    wpc,                     \* position inside the wrapper: "idle" | "awaiting" | "done"
    runResult,               \* the run the wrapper awaits: Pending or its RunDetails
    callbackCalls,           \* user callbacks invoked by the wrapper, with their arguments
    raised                   \* outcome of the wrapper: NotCalled, Returned or Thrown(text)

renderVars == <<pc, remainingTreesAndDepth, summaryLines, rendered, prevRendered>>
reportVars == <<thrown, report, invoked>>
runVars == <<phase, executionSummary, node, failures, out>>
formatterVars == <<phase, executionSummary, node, failures, out, pc, remainingTreesAndDepth,
                   summaryLines, rendered, prevRendered, summary0, node0, thrown, report,
                   invoked>>
propertyVars == <<callArgs, property, generated, predicateCalls, outcome, verdict>>
assertVars == <<wrapper, wpc, runResult, callbackCalls, raised>>
vars == <<formatterVars, propertyVars, assertVars>>

(***************************************************************************)
(* Bounds of the model.                                                    *)
(***************************************************************************)
MaxNodes == 3

\* null: an absent value.  An optional value v is <<v>> when present.
Null == <<>>
Some(v) == <<v>>
NotCalled == [kind |-> "not-called", message |-> Null]
Returned == [kind |-> "returned", message |-> Null]
Thrown(errorMessage) == [kind |-> "thrown", message |-> errorMessage]
NoReport == [message |-> Null, details |-> Null, hints |-> <<>>]

(***************************************************************************)
(* VerbosityLevel and ExecutionStatus enumerations.                        *)
(***************************************************************************)
None == 0
Verbose == 1
VeryVerbose == 2
VerbosityLevel == {None, Verbose, VeryVerbose}

Success == "Success"
Failure == "Failure"
Skipped == "Skipped"
ExecutionStatus == {Success, Failure, Skipped}

(***************************************************************************)
(* Strings, arrays and text.                                               *)
(***************************************************************************)
Reverse(s) == [i \in 1..Len(s) |-> s[Len(s) + 1 - i]]

\* s1 + s2 on texts: the last line of a continues with the first line of b
Cat(a, b) == SubSeq(a, 1, Len(a) - 1) \o <<a[Len(a)] \o b[1]>> \o Tail(b)

Str(s) == <<s>>
NL == <<"", "">>

RECURSIVE JoinText(_, _)
\* Array.prototype.join on an array of texts
JoinText(items, sep) ==
    IF items = <<>> THEN Str("")
    ELSE IF Len(items) = 1 THEN items[1]
    ELSE Cat(Cat(items[1], sep), JoinText(Tail(items), sep))

\* Array(n): n empty slots, each of which joins as the empty string
Array(n) == [i \in 1..n |-> Str("")]

\* stringify of the generic value formatter, on the integers of the model
stringify(v) == ToString(v)

(***************************************************************************)
(* formatExecutionSummary                                                  *)
(***************************************************************************)
IconSuccess == "\\x1b[32m\\u221A\\x1b[0m"
IconFailure == "\\x1b[31m\\xD7\\x1b[0m"
IconSkipped == "\\x1b[33m!\\x1b[0m"

statusIcon(status) ==
    IF status = Success THEN IconSuccess
    ELSE IF status = Failure THEN IconFailure
    ELSE IconSkipped

leftPadding(currentDepth) == JoinText(Array(currentDepth), Str(". "))[1]

\* lines 26-28: executionTrees.reverse() reverses the array in place and the
\* loop pushes its elements at depth 1
PushRoots(trees) == [i \in 1..Len(trees) |-> [depth |-> 1, tree |-> Reverse(trees)[i]]]

\* mutant: the children are pushed in their original order
PushChildrenInOrder(nodes, currentTree, currentDepth) ==
    [i \in 1..Len(nodes[currentTree].children) |->
        [depth |-> currentDepth + 1, tree |-> nodes[currentTree].children[i]]]

\* mutant: only the last child is pushed
PushLastChild(nodes, currentTree, currentDepth) ==
    [i \in 1..(IF nodes[currentTree].children = <<>> THEN 0 ELSE 1) |->
        [depth |-> currentDepth + 1, tree |-> Reverse(nodes[currentTree].children)[i]]]

\* lines 45-47: currentTree.children.reverse() reverses the array in place and
\* the loop pushes its elements one level deeper
PushChildren(nodes, currentTree, currentDepth) ==
    [i \in 1..Len(nodes[currentTree].children) |->
        [depth |-> currentDepth + 1, tree |-> Reverse(nodes[currentTree].children)[i]]]

\* one iteration of the while loop, lines 29-48, on s = [stack, lines, nodes]
LoopBody(s) ==
    LET currentTreeAndDepth == s.stack[Len(s.stack)]
        currentTree == currentTreeAndDepth.tree
        currentDepth == currentTreeAndDepth.depth
        line == leftPadding(currentDepth) \o statusIcon(s.nodes[currentTree].status)
                    \o " " \o stringify(s.nodes[currentTree].value)
    IN  [stack |-> SubSeq(s.stack, 1, Len(s.stack) - 1)
                       \o PushChildren(s.nodes, currentTree, currentDepth),
         lines |-> Append(s.lines, line),
         nodes |-> [s.nodes EXCEPT ![currentTree].children = Reverse(@)]]

RECURSIVE RunLoop(_)
RunLoop(s) == IF s.stack = <<>> THEN s ELSE RunLoop(LoopBody(s))

\* line 49
SummaryText(lines) ==
    Cat(Cat(Str("Execution summary:"), NL),
        JoinText([i \in 1..Len(lines) |-> Str(lines[i])], NL))

\* the whole call: the text returned and the arrays as the call leaves them
formatExecutionSummary(executionTrees, nodes) ==
    LET s == RunLoop([stack |-> PushRoots(executionTrees), lines |-> <<>>, nodes |-> nodes])
    IN  [text |-> SummaryText(s.lines),
         executionTrees |-> Reverse(executionTrees),
         nodes |-> s.nodes]

(***************************************************************************)
(* The trial driver (outside the formatter): records every executed value  *)
(* as a node of the execution forest and every failing value in failures.  *)
(***************************************************************************)
NoDetails == [failed |-> FALSE, interrupted |-> FALSE, counterexample |-> Null,
              verbose |-> None, numRuns |-> 0, numSkips |-> 0, numShrinks |-> 0,
              seed |-> 42, counterexamplePath |-> "", error |-> ""]

CountStatus(ids, nodes, statuses) ==
    Cardinality({i \in 1..Len(ids) : nodes[ids[i]].status \in statuses})

RecordExecution(parent, status) ==
    /\ phase = "running"
    /\ Len(node) < MaxNodes
    /\ LET id == Len(node) + 1
           created == Append(node, [value |-> id, status |-> status, children |-> <<>>])
       IN  /\ IF parent = 0
              THEN /\ executionSummary' = Append(executionSummary, id)
                   /\ node' = created
              ELSE /\ executionSummary' = executionSummary
                   /\ node' = [created EXCEPT ![parent].children = Append(@, id)]
           /\ failures' = IF status = Failure THEN Append(failures, id) ELSE failures
    /\ UNCHANGED <<phase, out, summary0, node0>>
    /\ UNCHANGED renderVars
    /\ UNCHANGED reportVars
    /\ UNCHANGED <<propertyVars, assertVars>>

CompleteRun(failed, interrupted, withCounterexample, verbose) ==
    /\ phase = "running"
    /\ phase' = "completed"
    /\ LET found == withCounterexample /\ failures # <<>>
       IN  out' = [failed |-> failed,
                   interrupted |-> interrupted,
                   counterexample |-> IF found THEN Some(failures[Len(failures)]) ELSE Null,
                   verbose |-> verbose,
                   numRuns |-> CountStatus(executionSummary, node, {Success, Failure}),
                   numSkips |-> CountStatus(executionSummary, node, {Skipped}),
                   numShrinks |-> IF found THEN Len(failures) - 1 ELSE 0,
                   seed |-> 42,
                   counterexamplePath |-> IF found THEN "0" ELSE "",
                   error |-> IF found THEN "Property failed by returning false" ELSE ""]
    /\ summary0' = executionSummary
    /\ node0' = node
    /\ UNCHANGED <<executionSummary, node, failures>>
    /\ UNCHANGED renderVars
    /\ UNCHANGED reportVars
    /\ UNCHANGED <<propertyVars, assertVars>>

(***************************************************************************)
(* The report builders and throwIfFailed.  A builder returns its report    *)
(* together with the execution forest as the call leaves it.               *)
(***************************************************************************)
\* the RunDetails object handed to the formatter
RunDetails ==
    [failed |-> out.failed, interrupted |-> out.interrupted,
     counterexample |-> out.counterexample, verbose |-> out.verbose,
     numRuns |-> out.numRuns, numSkips |-> out.numSkips, numShrinks |-> out.numShrinks,
     seed |-> out.seed, counterexamplePath |-> out.counterexamplePath, error |-> out.error,
     failures |-> failures, executionSummary |-> executionSummary, nodes |-> node]

\* mutant: the hints are numbered from 0
formatHintsFromZero(hints) ==
    IF Len(hints) = 1
    THEN Str("Hint: " \o hints[1])
    ELSE JoinText([idx \in 1..Len(hints) |->
                      Str("Hint (" \o ToString(idx - 1) \o "): " \o hints[idx])], NL)

formatHints(hints) ==
    IF Len(hints) = 1
    THEN Str("Hint: " \o hints[1])
    ELSE JoinText([idx \in 1..Len(hints) |->
                      Str("Hint (" \o ToString(idx) \o "): " \o hints[idx])], NL)

formatFailures(fails) ==
    Cat(<<"Encountered failures were:", "- ">>,
        JoinText([i \in 1..Len(fails) |-> Str(stringify(fails[i]))], <<"", "- ">>))

HintCombine == "Try to reduce the number of rejected values by combining map, flatMap and built-in arbitraries"
HintMaxSkips == "Increase failure tolerance by setting maxSkipsPerRun to an higher value"
HintVeryVerbose == "Enable verbose mode at level VeryVerbose in order to check all generated values and their associated status"
HintVerbose == "Enable verbose mode in order to have the list of all failing values encountered during the run"

\* details = formatExecutionSummary(out.executionSummary), which also leaves
\* its mark on the arrays of o
WithSummary(o, message, hints) ==
    LET f == formatExecutionSummary(o.executionSummary, o.nodes)
    IN  [message |-> message, details |-> f.text, hints |-> hints,
         executionSummary |-> f.executionTrees, nodes |-> f.nodes]

WithDetails(o, message, details, hints) ==
    [message |-> message, details |-> details, hints |-> hints,
     executionSummary |-> o.executionSummary, nodes |-> o.nodes]

preFormatTooManySkipped(o) ==
    LET message == <<"Failed to run property, too many pre-condition failures encountered",
                     "{ seed: " \o ToString(o.seed) \o " }",
                     "",
                     "Ran " \o ToString(o.numRuns) \o " time(s)",
                     "Skipped " \o ToString(o.numSkips) \o " time(s)">>
        hints == <<HintCombine, HintMaxSkips>>
    IN  IF o.verbose >= VeryVerbose
        THEN WithSummary(o, message, hints)
        ELSE WithDetails(o, message, Null, Append(hints, HintVeryVerbose))

\* mutant: the intermediate level is tested first, as a threshold
preFormatFailureVerboseFirst(o) ==
    LET message == <<"Property failed after " \o ToString(o.numRuns) \o " tests",
                     "{ seed: " \o ToString(o.seed) \o ", path: \"" \o o.counterexamplePath
                         \o "\", endOnFailure: true }",
                     "Counterexample: " \o stringify(o.counterexample[1]),
                     "Shrunk " \o ToString(o.numShrinks) \o " time(s)",
                     "Got error: " \o o.error>>
    IN  IF o.verbose >= Verbose
        THEN [message |-> message, details |-> formatFailures(o.failures), hints |-> <<>>,
              executionSummary |-> o.executionSummary, nodes |-> o.nodes]
        ELSE [message |-> message, details |-> Null, hints |-> <<HintVerbose>>,
              executionSummary |-> o.executionSummary, nodes |-> o.nodes]

preFormatFailure(o) ==
    LET message == <<"Property failed after " \o ToString(o.numRuns) \o " tests",
                     "{ seed: " \o ToString(o.seed) \o ", path: \"" \o o.counterexamplePath
                         \o "\", endOnFailure: true }",
                     "Counterexample: " \o stringify(o.counterexample[1]),
                     "Shrunk " \o ToString(o.numShrinks) \o " time(s)",
                     "Got error: " \o o.error>>
    IN  IF o.verbose >= VeryVerbose
        THEN WithSummary(o, message, <<>>)
        ELSE IF o.verbose = Verbose
        THEN WithDetails(o, message, formatFailures(o.failures), <<>>)
        ELSE WithDetails(o, message, Null, <<HintVerbose>>)

preFormatEarlyInterrupted(o) ==
    LET message == <<"Property interrupted after " \o ToString(o.numRuns) \o " tests",
                     "{ seed: " \o ToString(o.seed) \o " }">>
    IN  IF o.verbose >= VeryVerbose
        THEN WithSummary(o, message, <<>>)
        ELSE WithDetails(o, message, Null, <<HintVeryVerbose>>)

\* mutant: the interrupted flag is read the wrong way round
SelectBuilderSwapped(o) ==
    IF o.counterexample = Null
    THEN IF o.interrupted THEN "preFormatTooManySkipped" ELSE "preFormatEarlyInterrupted"
    ELSE "preFormatFailure"

\* lines 123-128: which builder throwIfFailed calls
SelectBuilder(o) ==
    IF o.counterexample = Null
    THEN IF o.interrupted THEN "preFormatEarlyInterrupted" ELSE "preFormatTooManySkipped"
    ELSE "preFormatFailure"

CallBuilder(name, o) ==
    IF name = "preFormatEarlyInterrupted" THEN preFormatEarlyInterrupted(o)
    ELSE IF name = "preFormatTooManySkipped" THEN preFormatTooManySkipped(o)
    ELSE preFormatFailure(o)

\* lines 130-132
ErrorMessage(message, details, hints) ==
    LET withDetails == IF details # Null THEN Cat(Cat(message, <<"", "", "">>), details)
                       ELSE message
    IN  IF Len(hints) > 0 THEN Cat(Cat(withDetails, <<"", "", "">>), formatHints(hints))
        ELSE withDetails

ThrowIfFailed ==
    /\ phase = "completed"
    /\ pc = "idle"
    /\ summary0' = executionSummary
    /\ node0' = node
    /\ IF ~RunDetails.failed
       THEN /\ thrown' = Returned
            /\ report' = NoReport
            /\ invoked' = <<>>
            /\ UNCHANGED <<executionSummary, node>>
       ELSE LET name == SelectBuilder(RunDetails)
                r == CallBuilder(name, RunDetails)
            IN  /\ invoked' = <<name>>
                /\ report' = [message |-> r.message, details |-> r.details, hints |-> r.hints]
                /\ executionSummary' = r.executionSummary
                /\ node' = r.nodes
                /\ thrown' = Thrown(ErrorMessage(r.message, r.details, r.hints))
    /\ UNCHANGED <<phase, failures, out>>
    /\ UNCHANGED renderVars
    /\ UNCHANGED <<propertyVars, assertVars>>

(***************************************************************************)
(* A direct call of formatExecutionSummary(out.executionSummary), one      *)
(* action per step of its loop.                                            *)
(***************************************************************************)
FormatBegin ==
    /\ phase = "completed"
    /\ pc = "idle"
    /\ pc' = "loop"
    /\ summary0' = executionSummary
    /\ node0' = node
    /\ summaryLines' = <<>>
    /\ remainingTreesAndDepth' = PushRoots(executionSummary)
    /\ executionSummary' = Reverse(executionSummary)
    /\ UNCHANGED <<phase, node, failures, out, rendered, prevRendered>>
    /\ UNCHANGED reportVars
    /\ UNCHANGED <<propertyVars, assertVars>>

FormatStep ==
    /\ pc = "loop"
    /\ remainingTreesAndDepth # <<>>
    /\ LET s == LoopBody([stack |-> remainingTreesAndDepth, lines |-> summaryLines,
                          nodes |-> node])
       IN  /\ remainingTreesAndDepth' = s.stack
           /\ summaryLines' = s.lines
           /\ node' = s.nodes
    /\ UNCHANGED <<phase, executionSummary, failures, out, pc, rendered, prevRendered,
                   summary0, node0>>
    /\ UNCHANGED reportVars
    /\ UNCHANGED <<propertyVars, assertVars>>

FormatReturn ==
    /\ pc = "loop"
    /\ remainingTreesAndDepth = <<>>
    /\ pc' = "idle"
    /\ rendered' = SummaryText(summaryLines)
    /\ prevRendered' = rendered
    /\ UNCHANGED <<remainingTreesAndDepth, summaryLines, summary0, node0>>
    /\ UNCHANGED runVars
    /\ UNCHANGED reportVars
    /\ UNCHANGED <<propertyVars, assertVars>>

(***************************************************************************)
(* AsyncProperty (AsyncProperty.ts).  A parameter slot holds an arbitrary, *)
(* a function or undefined.  The wrapped predicate t => p(t[0], ...) is    *)
(* kept as p together with the list of the positions it unpacks (from 1).  *)
(***************************************************************************)
Undefined == [kind |-> "undefined", id |-> 0]
Arbitrary(i) == [kind |-> "arbitrary", id |-> i]
UserPredicate == [kind |-> "function", id |-> 0]
Truthy(x) == x.kind # "undefined"

Arities == 1..9

\* tuple(...arbs) of TupleArbitrary: the arbitraries in the order given
tuple(arbs) == [kind |-> "tuple", arbs |-> arbs]

\* generate of an arbitrary: arbitrary i draws from {10 i, 10 i + 1}
ArbGenerate(arb, draw) == 10 * arb.id + draw

\* generate of the tuple arbitrary: point-wise, in order
TupleGenerate(tupleArb, draws) ==
    [i \in 1..Len(tupleArb.arbs) |-> ArbGenerate(tupleArb.arbs[i], draws[i])]

\* line 8: the constructor
NewAsyncProperty(arb, p, unpack) == [arb |-> arb, p |-> p, unpack |-> unpack]
NoProperty == NewAsyncProperty(tuple(<<>>), Undefined, <<>>)

\* mutant: the overload of four arbitraries passes t[2] twice
asyncPropertyFourSlip(a) ==
    IF Truthy(a[10]) THEN NewAsyncProperty(tuple(<<a[1], a[2], a[3], a[4], a[5], a[6], a[7], a[8], a[9]>>), a[10], <<1, 2, 3, 4, 5, 6, 7, 8, 9>>)
    ELSE IF Truthy(a[9]) THEN NewAsyncProperty(tuple(<<a[1], a[2], a[3], a[4], a[5], a[6], a[7], a[8]>>), a[9], <<1, 2, 3, 4, 5, 6, 7, 8>>)
    ELSE IF Truthy(a[8]) THEN NewAsyncProperty(tuple(<<a[1], a[2], a[3], a[4], a[5], a[6], a[7]>>), a[8], <<1, 2, 3, 4, 5, 6, 7>>)
    ELSE IF Truthy(a[7]) THEN NewAsyncProperty(tuple(<<a[1], a[2], a[3], a[4], a[5], a[6]>>), a[7], <<1, 2, 3, 4, 5, 6>>)
    ELSE IF Truthy(a[6]) THEN NewAsyncProperty(tuple(<<a[1], a[2], a[3], a[4], a[5]>>), a[6], <<1, 2, 3, 4, 5>>)
    ELSE IF Truthy(a[5]) THEN NewAsyncProperty(tuple(<<a[1], a[2], a[3], a[4]>>), a[5], <<1, 2, 3, 3>>)
    ELSE IF Truthy(a[4]) THEN NewAsyncProperty(tuple(<<a[1], a[2], a[3]>>), a[4], <<1, 2, 3>>)
    ELSE IF Truthy(a[3]) THEN NewAsyncProperty(tuple(<<a[1], a[2]>>), a[3], <<1, 2>>)
    ELSE NewAsyncProperty(tuple(<<a[1]>>), a[2], <<1>>)

\* lines 107-205, a = <<arb1, arb2, ..., arb9, predicate>>
asyncProperty(a) ==
    IF Truthy(a[10]) THEN NewAsyncProperty(tuple(<<a[1], a[2], a[3], a[4], a[5], a[6], a[7], a[8], a[9]>>), a[10], <<1, 2, 3, 4, 5, 6, 7, 8, 9>>)
    ELSE IF Truthy(a[9]) THEN NewAsyncProperty(tuple(<<a[1], a[2], a[3], a[4], a[5], a[6], a[7], a[8]>>), a[9], <<1, 2, 3, 4, 5, 6, 7, 8>>)
    ELSE IF Truthy(a[8]) THEN NewAsyncProperty(tuple(<<a[1], a[2], a[3], a[4], a[5], a[6], a[7]>>), a[8], <<1, 2, 3, 4, 5, 6, 7>>)
    ELSE IF Truthy(a[7]) THEN NewAsyncProperty(tuple(<<a[1], a[2], a[3], a[4], a[5], a[6]>>), a[7], <<1, 2, 3, 4, 5, 6>>)
    ELSE IF Truthy(a[6]) THEN NewAsyncProperty(tuple(<<a[1], a[2], a[3], a[4], a[5]>>), a[6], <<1, 2, 3, 4, 5>>)
    ELSE IF Truthy(a[5]) THEN NewAsyncProperty(tuple(<<a[1], a[2], a[3], a[4]>>), a[5], <<1, 2, 3, 4>>)
    ELSE IF Truthy(a[4]) THEN NewAsyncProperty(tuple(<<a[1], a[2], a[3]>>), a[4], <<1, 2, 3>>)
    ELSE IF Truthy(a[3]) THEN NewAsyncProperty(tuple(<<a[1], a[2]>>), a[3], <<1, 2>>)
    ELSE NewAsyncProperty(tuple(<<a[1]>>), a[2], <<1>>)

\* the wrapped predicate: p called with the unpacked positions of t
UnpackedArguments(prop, t) == [i \in 1..Len(prop.unpack) |-> t[prop.unpack[i]]]

\* what a user predicate can do: resolve to a value, throw, or reject
NoError == [isError |-> FALSE, text |-> "", stack |-> Null]
Errors ==
    {[isError |-> TRUE, text |-> "Error: boom", stack |-> <<"Error: boom", "    at predicate">>],
     [isError |-> TRUE, text |-> "Error: boom", stack |-> Null],
     [isError |-> FALSE, text |-> "boom", stack |-> Null],
     [isError |-> FALSE, text |-> "[object Object]", stack |-> <<"not an Error">>]}
PredicateOutcomes ==
    {[kind |-> "resolve", value |-> v, error |-> NoError] : v \in {"true", "false", "undefined"}}
    \cup {[kind |-> k, value |-> "none", error |-> e] : k \in {"throw", "reject"}, e \in Errors}

NotRun == [kind |-> "not-run", value |-> Null]
Resolved(v) == [kind |-> "resolved", value |-> v]
Rejected(e) == [kind |-> "rejected", value |-> Str(e.text)]

\* mutant: only Error instances are caught, anything else propagates
runCatchErrorsOnly(o) ==
    IF o.kind = "resolve"
    THEN IF o.value \in {"null", "undefined"} \/ o.value = "true"
         THEN Resolved(Null)
         ELSE Resolved(Str("Property failed by returning false"))
    ELSE IF ~o.error.isError THEN Rejected(o.error)
    ELSE IF o.error.stack # Null
         THEN Resolved(Cat(Cat(Str(o.error.text), <<"", "", "Stack trace: ">>), o.error.stack))
         ELSE Resolved(Str(o.error.text))

\* lines 13-23: the promise of run, given what the awaited predicate did
run(o) ==
    IF o.kind = "resolve"
    THEN IF o.value \in {"null", "undefined"} \/ o.value = "true"
         THEN Resolved(Null)
         ELSE Resolved(Str("Property failed by returning false"))
    ELSE IF o.error.isError /\ o.error.stack # Null
         THEN Resolved(Cat(Cat(Str(o.error.text), <<"", "", "Stack trace: ">>), o.error.stack))
         ELSE Resolved(Str(o.error.text))

CallAsyncProperty(n) ==
    /\ callArgs' = [i \in 1..10 |-> IF i <= n THEN Arbitrary(i)
                                    ELSE IF i = n + 1 THEN UserPredicate ELSE Undefined]
    /\ property' = asyncProperty(callArgs')
    /\ generated' = Null
    /\ predicateCalls' = <<>>
    /\ outcome' = [kind |-> "none", value |-> "none", error |-> NoError]
    /\ verdict' = NotRun
    /\ UNCHANGED <<formatterVars, assertVars>>

\* lines 10-12
Generate(draws) ==
    /\ property # NoProperty
    /\ generated = Null
    /\ generated' = TupleGenerate(property.arb, draws)
    /\ UNCHANGED <<callArgs, property, predicateCalls, outcome, verdict>>
    /\ UNCHANGED <<formatterVars, assertVars>>

\* lines 13-23, the user predicate doing o
Run(o) ==
    /\ generated # Null
    /\ predicateCalls' = <<UnpackedArguments(property, generated)>>
    /\ outcome' = o
    /\ verdict' = run(o)
    /\ UNCHANGED <<callArgs, property, generated>>
    /\ UNCHANGED <<formatterVars, assertVars>>

IdleProperty ==
    /\ callArgs = <<>>
    /\ property = NoProperty
    /\ generated = Null
    /\ predicateCalls = <<>>
    /\ outcome = [kind |-> "none", value |-> "none", error |-> NoError]
    /\ verdict = NotRun

(***************************************************************************)
(* The custom-assertion wrappers.  Each awaits a run (its own fc.check or  *)
(* the promise it is given) and continues once the run has completed.      *)
(***************************************************************************)
NoRun == [state |-> "none", failed |-> FALSE, interrupted |-> FALSE, counterexample |-> Null]
Pending == [state |-> "pending", failed |-> FALSE, interrupted |-> FALSE,
            counterexample |-> Null]
Completed(failed, interrupted, counterexample) ==
    [state |-> "completed", failed |-> failed, interrupted |-> interrupted,
     counterexample |-> counterexample]

\* counterexamples of the runs: absent, or a tuple of generated values
Counterexamples == {Null, <<1>>, <<1, 2>>}
\* texts a user callback resolves to
CallbackTexts == {<<"because">>, <<"first reason", "second reason">>}

NoWrapper == [name |-> "none", supplied |-> FALSE]
\* the wrappers with the callbacks the caller passes: customAssertA takes
\* none, run of buildCustomAssertB takes an optional one, the two others
\* require theirs
Wrappers ==
    {[name |-> "customAssertA", supplied |-> FALSE],
     [name |-> "buildCustomAssertB.run", supplied |-> FALSE],
     [name |-> "buildCustomAssertB.run", supplied |-> TRUE],
     [name |-> "withCustomAssert", supplied |-> TRUE],
     [name |-> "withCustomAssertB", supplied |-> TRUE]}
ChecksItself(w) == w.name \in {"customAssertA", "buildCustomAssertB.run"}

\* fc_formatRunDetails is declared only: the generic message of the run
fc_formatRunDetails(o) ==
    IF o.counterexample = Null
    THEN IF o.interrupted THEN <<"Property interrupted after 1 tests", "{ seed: 42 }">>
         ELSE <<"Failed to run property, too many pre-condition failures encountered">>
    ELSE <<"Property failed after 1 tests", "Got error: Property failed by returning false">>

Call(callback, o, text) ==
    [callback |-> callback, args |-> o.counterexample, runState |-> o.state, returned |-> text]

WithExplanation(genericErrorMessage, text) ==
    Thrown(Cat(Cat(genericErrorMessage, <<"", "", "">>), text))

\* lines 146-151
customAssertA(o, text) ==
    IF ~o.failed THEN [raised |-> Returned, calls |-> <<>>]
    ELSE IF o.counterexample = Null
    THEN [raised |-> Thrown(fc_formatRunDetails(o)), calls |-> <<>>]
    ELSE [raised |-> WithExplanation(fc_formatRunDetails(o),
                                     Str("await callMethod(out.counterexample)")),
          calls |-> <<>>]

\* lines 158-163
customAssert(callMethod, o, text) ==
    IF ~o.failed THEN [raised |-> Returned, calls |-> <<>>]
    ELSE IF ~callMethod \/ o.counterexample = Null
    THEN [raised |-> Thrown(fc_formatRunDetails(o)), calls |-> <<>>]
    ELSE [raised |-> WithExplanation(fc_formatRunDetails(o), text),
          calls |-> <<Call("callMethod", o, text)>>]

\* lines 172-177
withCustomAssert(o, text) ==
    IF ~o.failed THEN [raised |-> Returned, calls |-> <<>>]
    ELSE IF o.counterexample = Null
    THEN [raised |-> Thrown(fc_formatRunDetails(o)), calls |-> <<>>]
    ELSE [raised |-> WithExplanation(fc_formatRunDetails(o), text),
          calls |-> <<Call("callMethod", o, text)>>]

\* lines 188-193
withCustomAssertB(o, text) ==
    IF ~o.failed THEN [raised |-> Returned, calls |-> <<>>]
    ELSE IF o.counterexample = Null
    THEN [raised |-> Thrown(fc_formatRunDetails(o)), calls |-> <<>>]
    ELSE [raised |-> WithExplanation(fc_formatRunDetails(o), text),
          calls |-> <<Call("onRunInterrupted", o, text)>>]

\* the caller starts a run and holds its promise
CreateRun ==
    /\ wpc = "idle"
    /\ runResult = NoRun
    /\ runResult' = Pending
    /\ UNCHANGED <<wrapper, wpc, callbackCalls, raised>>
    /\ UNCHANGED <<formatterVars, propertyVars>>

\* lines 144 and 156: the wrapper starts fc.check and awaits it
StartCheck(w) ==
    /\ ChecksItself(w)
    /\ wpc = "idle"
    /\ runResult = NoRun
    /\ wrapper' = w
    /\ wpc' = "awaiting"
    /\ runResult' = Pending
    /\ UNCHANGED <<callbackCalls, raised>>
    /\ UNCHANGED <<formatterVars, propertyVars>>

\* lines 171 and 187: the wrapper awaits the run it is given
StartWith(w) ==
    /\ ~ChecksItself(w)
    /\ wpc = "idle"
    /\ runResult # NoRun
    /\ wrapper' = w
    /\ wpc' = "awaiting"
    /\ UNCHANGED <<runResult, callbackCalls, raised>>
    /\ UNCHANGED <<formatterVars, propertyVars>>

\* the run completes with its RunDetails
RunCompletes(failed, interrupted, counterexample) ==
    /\ runResult = Pending
    /\ runResult' = Completed(failed, interrupted, counterexample)
    /\ UNCHANGED <<wrapper, wpc, callbackCalls, raised>>
    /\ UNCHANGED <<formatterVars, propertyVars>>

\* the wrapper continues after its await; text is what a callback resolves to
Resume(text) ==
    /\ wpc = "awaiting"
    /\ runResult.state = "completed"
    /\ LET r == IF wrapper.name = "customAssertA" THEN customAssertA(runResult, text)
                ELSE IF wrapper.name = "buildCustomAssertB.run"
                THEN customAssert(wrapper.supplied, runResult, text)
                ELSE IF wrapper.name = "withCustomAssert"
                THEN withCustomAssert(runResult, text)
                ELSE withCustomAssertB(runResult, text)
       IN  /\ raised' = r.raised
           /\ callbackCalls' = r.calls
    /\ wpc' = "done"
    /\ UNCHANGED <<wrapper, runResult>>
    /\ UNCHANGED <<formatterVars, propertyVars>>

IdleAssert ==
    /\ wrapper = NoWrapper
    /\ wpc = "idle"
    /\ runResult = NoRun
    /\ callbackCalls = <<>>
    /\ raised = NotCalled

IdleFormatter ==
    /\ phase = "running"
    /\ executionSummary = <<>>
    /\ node = <<>>
    /\ failures = <<>>
    /\ out = NoDetails
    /\ pc = "idle"
    /\ remainingTreesAndDepth = <<>>
    /\ summaryLines = <<>>
    /\ rendered = Null
    /\ prevRendered = Null
    /\ summary0 = <<>>
    /\ node0 = <<>>
    /\ thrown = NotCalled
    /\ report = NoReport
    /\ invoked = <<>>

InitRun == IdleFormatter /\ IdleProperty /\ IdleAssert

NextRender ==
    \/ \E parent \in 0..Len(node), status \in ExecutionStatus : RecordExecution(parent, status)
    \/ CompleteRun(FALSE, FALSE, FALSE, VeryVerbose)
    \/ FormatBegin
    \/ FormatStep
    \/ FormatReturn

SpecRender == InitRun /\ [][NextRender]_vars

Next ==
    \/ \E parent \in 0..Len(node), status \in ExecutionStatus : RecordExecution(parent, status)
    \/ \E failed \in BOOLEAN, interrupted \in BOOLEAN, withCounterexample \in BOOLEAN,
          verbose \in VerbosityLevel :
            CompleteRun(failed, interrupted, withCounterexample, verbose)
    \/ ThrowIfFailed

Spec == InitRun /\ [][Next]_vars

NextProperty ==
    \/ \E n \in Arities : CallAsyncProperty(n)
    \/ \E draws \in [1..Len(property.arb.arbs) -> {0, 1}] : Generate(draws)
    \/ \E o \in PredicateOutcomes : Run(o)

SpecProperty == InitRun /\ [][NextProperty]_vars

NextAssert ==
    \/ CreateRun
    \/ \E w \in Wrappers : StartCheck(w)
    \/ \E w \in Wrappers : StartWith(w)
    \/ \E failed \in BOOLEAN, interrupted \in BOOLEAN, counterexample \in Counterexamples :
            RunCompletes(failed, interrupted, counterexample)
    \/ \E text \in CallbackTexts : Resume(text)

SpecAssert == InitRun /\ [][NextAssert]_vars
(***************************************************************************)
(* What the claims speak of, stated without the work stack.                *)
(***************************************************************************)
RECURSIVE Indent(_)
Indent(k) == IF k = 0 THEN "" ELSE ". " \o Indent(k - 1)

Glyph(status) ==
    CASE status = Success -> IconSuccess
      [] status = Failure -> IconFailure
      [] status = Skipped -> IconSkipped

RECURSIVE ExpectedLines(_, _, _)
\* the lines of the forest ids in pre-order, its roots at the given depth
ExpectedLines(ids, nodes, depth) ==
    IF ids = <<>> THEN <<>>
    ELSE <<Indent(depth - 1) \o Glyph(nodes[ids[1]].status) \o " "
               \o ToString(nodes[ids[1]].value)>>
         \o ExpectedLines(nodes[ids[1]].children, nodes, depth + 1)
         \o ExpectedLines(Tail(ids), nodes, depth)

\* the header line, a line break, and the body lines separated by line breaks
ExpectedSummary(ids, nodes) ==
    IF ids = <<>> THEN <<"Execution summary:", "">>
    ELSE <<"Execution summary:">> \o ExpectedLines(ids, nodes, 1)

ExpectedFailureList(fails) ==
    <<"Encountered failures were:">> \o [i \in 1..Len(fails) |-> "- " \o ToString(fails[i])]

ExpectedHintLines(hints) ==
    IF Len(hints) = 1 THEN <<"Hint: " \o hints[1]>>
    ELSE [i \in 1..Len(hints) |-> "Hint (" \o ToString(i) \o "): " \o hints[i]]

HasCounterexample == out.counterexample # Null
ThrowIfFailedCalled == thrown.kind # "not-called"

\* C1: formatExecutionSummary called twice in a row on the same forest
\* returns the same text both times.
C1_RenderTwiceSameText ==
    (pc = "idle" /\ rendered # Null /\ prevRendered # Null) => rendered = prevRendered

\* C2: the work-stack traversal ends after exactly one iteration per node and
\* its text is the header followed by one line per node in pre-order of the
\* forest it was given, a node at depth d indented by d-1 markers ". " and
\* carrying the glyph of its status, the three glyphs being distinct.
C2_PreOrderSummary ==
    LET expected == ExpectedLines(summary0, node0, 1)
    IN  /\ Cardinality({IconSuccess, IconFailure, IconSkipped}) = 3
        /\ Len(expected) = Len(node0)
        /\ pc = "loop" =>
              /\ Len(summaryLines) <= Len(expected)
              /\ summaryLines = SubSeq(expected, 1, Len(summaryLines))
              /\ (remainingTreesAndDepth = <<>>) <=> (Len(summaryLines) = Len(expected))
        /\ (pc = "idle" /\ rendered # Null) => rendered = ExpectedSummary(summary0, node0)

C2_Witness ==
    /\ pc = "idle"
    /\ rendered # Null
    /\ Len(summary0) = 2
    /\ \E i \in 1..Len(node0) : Len(node0[i].children) = 1
    /\ Len(rendered) = 4

\* C3: on a failed run throwIfFailed invokes exactly one report builder,
\* chosen by (counterexample present?, interrupted?) alone.
C3_OneBuilderByClassification ==
    (ThrowIfFailedCalled /\ out.failed) =>
        /\ Len(invoked) = 1
        /\ HasCounterexample =>
              /\ invoked[1] = "preFormatFailure"
              /\ report.message[1] = "Property failed after " \o ToString(out.numRuns) \o " tests"
        /\ (~HasCounterexample /\ out.interrupted) =>
              /\ invoked[1] = "preFormatEarlyInterrupted"
              /\ report.message[1] =
                    "Property interrupted after " \o ToString(out.numRuns) \o " tests"
        /\ (~HasCounterexample /\ ~out.interrupted) =>
              /\ invoked[1] = "preFormatTooManySkipped"
              /\ report.message[1] =
                    "Failed to run property, too many pre-condition failures encountered"

C3_Witness ==
    /\ ThrowIfFailedCalled
    /\ out.failed
    /\ ~HasCounterexample
    /\ out.interrupted
    /\ invoked = <<"preFormatEarlyInterrupted">>

\* C4: throwIfFailed returns when the run did not fail; otherwise it raises one
\* error whose text is the message, then a blank line and the details when
\* there are details, then a blank line and the hints when there are hints, a
\* single hint as "Hint: ..." and several hints numbered from 1 in order.
C4_AssembledError ==
    ThrowIfFailedCalled =>
        IF ~out.failed THEN thrown = Returned
        ELSE /\ thrown.kind = "thrown"
             /\ thrown.message =
                    report.message
                    \o (IF report.details # Null THEN <<"">> \o report.details ELSE <<>>)
                    \o (IF report.hints # <<>> THEN <<"">> \o ExpectedHintLines(report.hints)
                        ELSE <<>>)

C4_Witness ==
    /\ thrown.kind = "thrown"
    /\ report.details # Null
    /\ Len(report.hints) = 2
    /\ Len(thrown.message) > Len(report.message) + Len(report.details) + 2

\* C7: the details are the rendered execution tree exactly at verbosity
\* VeryVerbose or above; below it the counterexample builder gives the list of
\* failures at Verbose and no details plus the verbose hint at None, the two
\* other builders give no details plus the VeryVerbose hint, and the
\* too-many-skips builder always starts its hints with its two fixed hints.
C7_DetailsByVerbosity ==
    thrown.kind = "thrown" =>
        LET name == invoked[1]
            InHints(h) == \E i \in 1..Len(report.hints) : report.hints[i] = h
        IN  /\ (report.details = ExpectedSummary(summary0, node0))
                  <=> (out.verbose >= VeryVerbose)
            /\ (name = "preFormatFailure" /\ out.verbose = Verbose) =>
                  report.details = ExpectedFailureList(failures)
            /\ (name = "preFormatFailure" /\ out.verbose < Verbose) =>
                  report.details = Null /\ InHints(HintVerbose)
            /\ (name # "preFormatFailure" /\ out.verbose < VeryVerbose) =>
                  report.details = Null /\ InHints(HintVeryVerbose)
            /\ name = "preFormatTooManySkipped" =>
                  /\ Len(report.hints) >= 2
                  /\ report.hints[1] = HintCombine
                  /\ report.hints[2] = HintMaxSkips

C7_Witness ==
    /\ thrown.kind = "thrown"
    /\ invoked = <<"preFormatFailure">>
    /\ out.verbose = VeryVerbose
    /\ Len(node0) = MaxNodes
    /\ report.details = ExpectedSummary(summary0, node0)

C10_ForestUnchanged ==
    ThrowIfFailedCalled => (executionSummary = summary0 /\ node = node0)
\* C5: run never rejects: it resolves to Pass (null) when the predicate
\* resolves to true or undefined, to the fixed description when it resolves to
\* false, and when the predicate throws or rejects to the error's string form,
\* followed for an Error with a stack by a blank line and "Stack trace: "
\* with the stack.
C5_RunVerdict ==
    verdict # NotRun =>
        /\ verdict.kind = "resolved"
        /\ (outcome.kind = "resolve" /\ outcome.value \in {"true", "undefined"}) =>
              verdict.value = Null
        /\ (outcome.kind = "resolve" /\ outcome.value = "false") =>
              verdict.value = <<"Property failed by returning false">>
        /\ outcome.kind \in {"throw", "reject"} =>
              IF outcome.error.isError /\ outcome.error.stack # Null
              THEN verdict.value = <<outcome.error.text, "",
                                     "Stack trace: " \o outcome.error.stack[1]>>
                                   \o Tail(outcome.error.stack)
              ELSE verdict.value = <<outcome.error.text>>

C5_Witness ==
    /\ verdict.kind = "resolved"
    /\ outcome.kind = "throw"
    /\ outcome.error.isError
    /\ outcome.error.stack # Null
    /\ Len(verdict.value) = 4

\* C6: asyncProperty called with n generators and a predicate, n in 1..9,
\* builds the tuple of exactly those n generators in order, and a run on a
\* generated tuple calls the predicate once with its n values in order and
\* resolves to the verdict of what the predicate did.
C6_ArityResolution ==
    property # NoProperty =>
        LET n == Cardinality({i \in 1..10 : callArgs[i].kind = "arbitrary"})
        IN  /\ property.arb = tuple([i \in 1..n |-> Arbitrary(i)])
            /\ property.p = UserPredicate
            /\ generated # Null =>
                  /\ Len(generated) = n
                  /\ \A i \in 1..n : generated[i] \div 10 = i
            /\ verdict # NotRun =>
                  /\ predicateCalls = <<generated>>
                  /\ (verdict.value = Null)
                        <=> (outcome.kind = "resolve" /\ outcome.value # "false")

C6_Witness ==
    /\ verdict # NotRun
    /\ Len(generated) = 9
    /\ predicateCalls = <<generated>>
    /\ generated[9] = 91
    /\ outcome.value = "false"
\* C8: a wrapper applied to a failed run raises the generic message alone and
\* invokes no callback when the counterexample is absent or no callback is
\* supplied; otherwise it invokes the callback matching the outcome of the run
\* once, after the run has completed, with the counterexample unpacked, and
\* raises the generic message followed by the text of the callback; on a run
\* that did not fail it raises nothing and invokes no callback.
C8_WrapperContract ==
    wpc = "done" =>
        LET generic == fc_formatRunDetails(runResult)
            matching == IF wrapper.name = "withCustomAssertB" THEN "onRunFailed"
                        ELSE "callMethod"
        IN  IF ~runResult.failed
            THEN raised = Returned /\ callbackCalls = <<>>
            ELSE IF runResult.counterexample = Null \/ ~wrapper.supplied
            THEN raised = Thrown(generic) /\ callbackCalls = <<>>
            ELSE /\ Len(callbackCalls) = 1
                 /\ callbackCalls[1].callback = matching
                 /\ callbackCalls[1].args = runResult.counterexample
                 /\ callbackCalls[1].runState = "completed"
                 /\ raised = Thrown(generic \o <<"">> \o callbackCalls[1].returned)
====
